---- MODULE Spec2Model ----
(***************************************************************************)
(* Model of the graph-colouring scripts graph.py and graph_v3.py: the      *)
(* networkx graph they build (vertex insertion order and adjacency), the   *)
(* three colouring heuristics welsh_powell, greedy_coloring and dsatur,    *)
(* and the edge-list writer and the two edge-list loaders.                 *)
(***************************************************************************)
EXTENDS Integers, Sequences, FiniteSets, TLC

VARIABLES
    g,           \* the graph under work: [nodes : insertion-ordered Seq, adj : node -> set]
    pc,          \* position of the running script
    alg,         \* which colouring function was called ("none" before any call)
    color_map,   \* the colouring function's color_map dict (node -> colour)
    saturation,  \* dsatur's saturation dict
    degree,      \* dsatur's degree dict
    last_call,   \* the graph-management function called last
    error,       \* the outcome of the last call: "ok" or the exception raised
    file,        \* the edge-list file: a sequence of lines, each a sequence of characters
    pos,         \* number of lines of the file the loader has consumed
    g_loaded,    \* the graph the loader is building
    loader,      \* which read_graph_from_file runs: "graph" (graph.py) or "v3" (graph_v3.py)
    written      \* TRUE when file was produced by write_graph_to_file(g, ...)

vars == <<g, pc, alg, color_map, saturation, degree, last_call, error,
          file, pos, g_loaded, loader, written>>

colorVars == <<pc, alg, color_map, saturation, degree>>
fileVars == <<file, pos, g_loaded, loader, written>>

(***************************************************************************)
(* Bounds.                                                                 *)
(***************************************************************************)
\* vertex identifiers of the colouring and file specifications are 1..MaxNode
MaxNode == 4
\* vertex identifiers of the graph-management specification are 1..MaxBuildNode
MaxBuildNode == 3
\* an arbitrary input file holds at most MaxLines lines
MaxLines == 3

Ids == 1..MaxNode
BuildIds == 1..MaxBuildNode

(***************************************************************************)
(* The networkx Graph as the scripts use it.                               *)
(***************************************************************************)
Range(s) == {s[i] : i \in 1..Len(s)}

\* create_graph(): nx.Graph()
create_graph == [nodes |-> <<>>, adj |-> <<>>]

NodeSet(graph) == Range(graph.nodes)

\* the undirected edges of a graph, each as the set of its endpoints
\* (a self-loop is the singleton {u})
EdgeSet(graph) == UNION {{{u, v} : v \in graph.adj[u]} : u \in NodeSet(graph)}

\* graph.add_node(node): idempotent; a new node goes last in iteration order
add_node(graph, node) ==
    IF node \in NodeSet(graph) THEN graph
    ELSE [nodes |-> Append(graph.nodes, node),
          adj   |-> graph.adj @@ (node :> {})]

\* graph.add_edge(u, v): creates missing endpoints (u first), then records
\* both directions; u = v records a self-loop
add_edge(graph, u, v) ==
    LET g2 == add_node(add_node(graph, u), v)
    IN  [g2 EXCEPT !.adj = [n \in NodeSet(g2) |->
                                IF n = u /\ n = v THEN g2.adj[n] \cup {u}
                                ELSE IF n = u THEN g2.adj[n] \cup {v}
                                ELSE IF n = v THEN g2.adj[n] \cup {u}
                                ELSE g2.adj[n]]]

SelectSeq2(s, x) == SelectSeq(s, LAMBDA y : y # x)

\* remove_node that forgets the neighbours' adjacency
remove_node_keep(graph, node) ==
    LET rest == NodeSet(graph) \ {node}
    IN  [nodes |-> SelectSeq2(graph.nodes, node),
         adj   |-> [n \in rest |-> graph.adj[n]]]

\* graph.remove_node(node) on a present node: the node leaves the node list
\* and every neighbour's adjacency
remove_node(graph, node) ==
    LET rest == NodeSet(graph) \ {node}
    IN  [nodes |-> SelectSeq2(graph.nodes, node),
         adj   |-> [n \in rest |-> graph.adj[n] \ {node}]]

\* graph.remove_edge(u, v) on a present edge: both directions go
remove_edge(graph, u, v) ==
    [graph EXCEPT !.adj = [n \in NodeSet(graph) |->
                              IF n = u /\ n = v THEN graph.adj[n] \ {u}
                              ELSE IF n = u THEN graph.adj[n] \ {v}
                              ELSE IF n = v THEN graph.adj[n] \ {u}
                              ELSE graph.adj[n]]]

\* graph.neighbors(n)
neighbors(graph, n) == graph.adj[n]

\* graph.degree[n]: a self-loop counts twice
graph_degree(graph, n) ==
    Cardinality(graph.adj[n]) + (IF n \in graph.adj[n] THEN 1 ELSE 0)

\* graph.number_of_nodes()
number_of_nodes(graph) == Len(graph.nodes)

(***************************************************************************)
(* The colouring functions.                                                *)
(***************************************************************************)
\* "if color in neighbor_colors" in place of the while loop
FirstFreeFrom_if(color, neighbor_colors) ==
    IF color \in neighbor_colors THEN color + 1 ELSE color

\* color = 1; while color in neighbor_colors: color += 1
RECURSIVE FirstFreeFrom(_, _)
FirstFreeFrom(color, neighbor_colors) ==
    IF color \in neighbor_colors THEN FirstFreeFrom(color + 1, neighbor_colors)
    ELSE color

\* the colour after the largest neighbour colour in place of the smallest free one
FirstFree_next(neighbor_colors) ==
    IF neighbor_colors = {} THEN 1
    ELSE 1 + CHOOSE c \in neighbor_colors : \A d \in neighbor_colors : d <= c

FirstFree(neighbor_colors) == FirstFreeFrom(1, neighbor_colors)

\* {color_map[neighbor] for neighbor in graph.neighbors(node) if neighbor in color_map}
NeighborColors(graph, cm, node) ==
    {cm[nb] : nb \in (neighbors(graph, node) \cap DOMAIN cm)}

\* sorted(..., key=degree, reverse=True) is stable: x goes behind every
\* element of degree >= its own
RECURSIVE InsertByDegree(_, _, _)
InsertByDegree(graph, sorted, x) ==
    IF sorted = <<>> THEN <<x>>
    ELSE IF graph_degree(graph, Head(sorted)) >= graph_degree(graph, x)
         THEN <<Head(sorted)>> \o InsertByDegree(graph, Tail(sorted), x)
         ELSE <<x>> \o sorted

RECURSIVE SortPrefix(_, _)
SortPrefix(graph, k) ==
    IF k = 0 THEN <<>>
    ELSE InsertByDegree(graph, SortPrefix(graph, k - 1), graph.nodes[k])

\* sorted_nodes = sorted(graph.nodes, key=lambda x: graph.degree[x], reverse=True)
sorted_nodes(graph) == SortPrefix(graph, Len(graph.nodes))

\* the extension pass without its adjacency test
NoNeighborHas_unchecked(graph, cm, neighbor, current_color) == TRUE

\* all(color_map.get(n) != current_color for n in graph.neighbors(neighbor))
NoNeighborHas(graph, cm, neighbor, current_color) ==
    \A n \in neighbors(graph, neighbor) : (n \in DOMAIN cm) => cm[n] # current_color

\* welsh_powell without its extension pass
WpExtend_none(graph, cm, current_color, i) == cm

\* the inner loop "for neighbor in graph.nodes", from position i on
RECURSIVE WpExtend(_, _, _, _)
WpExtend(graph, cm, current_color, i) ==
    IF i > Len(graph.nodes) THEN cm
    ELSE LET neighbor == graph.nodes[i]
         IN  IF neighbor \notin DOMAIN cm /\ NoNeighborHas(graph, cm, neighbor, current_color)
             THEN WpExtend(graph, cm @@ (neighbor :> current_color), current_color, i + 1)
             ELSE WpExtend(graph, cm, current_color, i + 1)

\* "current_color += 1" moved out of the "if node not in color_map"
RECURSIVE WpLoop_count(_, _, _, _, _)
WpLoop_count(graph, sorted, cm, current_color, i) ==
    IF i > Len(sorted) THEN cm
    ELSE LET node == sorted[i]
         IN  IF node \notin DOMAIN cm
             THEN WpLoop_count(graph, sorted,
                               WpExtend(graph, cm @@ (node :> current_color + 1),
                                        current_color + 1, 1),
                               current_color + 1, i + 1)
             ELSE WpLoop_count(graph, sorted, cm, current_color + 1, i + 1)

\* the outer loop "for node in sorted_nodes", from position i on
RECURSIVE WpLoop(_, _, _, _, _)
WpLoop(graph, sorted, cm, current_color, i) ==
    IF i > Len(sorted) THEN cm
    ELSE LET node == sorted[i]
         IN  IF node \notin DOMAIN cm
             THEN WpLoop(graph, sorted,
                         WpExtend(graph, cm @@ (node :> current_color + 1),
                                  current_color + 1, 1),
                         current_color + 1, i + 1)
             ELSE WpLoop(graph, sorted, cm, current_color, i + 1)

welsh_powell(graph) == WpLoop(graph, sorted_nodes(graph), <<>>, 0, 1)

\* the loop "for node in graph.nodes" of greedy_coloring, from position i on
RECURSIVE GreedyLoop(_, _, _)
GreedyLoop(graph, cm, i) ==
    IF i > Len(graph.nodes) THEN cm
    ELSE LET node == graph.nodes[i]
         IN  GreedyLoop(graph,
                        [n \in DOMAIN cm \cup {node} |->
                            IF n = node THEN FirstFree(NeighborColors(graph, cm, node))
                            ELSE cm[n]],
                        i + 1)

greedy_coloring(graph) == GreedyLoop(graph, <<>>, 1)

\* key=lambda x: (saturation[x], degree[x]), tuples compared lexicographically
KeyLess(sat, deg, a, b) ==
    \/ sat[a] < sat[b]
    \/ sat[a] = sat[b] /\ deg[a] < deg[b]

\* max(...) keeps the first element whose key no later element exceeds
RECURSIVE MaxFrom(_, _, _, _)
MaxFrom(cands, sat, deg, best) ==
    IF cands = <<>> THEN best
    ELSE IF KeyLess(sat, deg, best, Head(cands))
         THEN MaxFrom(Tail(cands), sat, deg, Head(cands))
         ELSE MaxFrom(Tail(cands), sat, deg, best)

\* the candidates without the "if n not in color_map" filter
Uncolored_all(graph, cm) == graph.nodes

\* (n for n in graph.nodes if n not in color_map)
Uncolored(graph, cm) == SelectSeq(graph.nodes, LAMBDA n : n \notin DOMAIN cm)

\* node = max((n for n in graph.nodes if n not in color_map), key=...)
DsaturSelect(graph, cm, sat, deg) ==
    LET cands == Uncolored(graph, cm)
    IN  MaxFrom(Tail(cands), sat, deg, Head(cands))

\* for neighbor in graph.neighbors(node): if neighbor not in color_map: saturation[neighbor] += 1
BumpSaturation(graph, cm, sat, node) ==
    [n \in DOMAIN sat |->
        IF n \in neighbors(graph, node) /\ n \notin DOMAIN cm THEN sat[n] + 1 ELSE sat[n]]

(***************************************************************************)
(* Specification Spec: a caller holds a graph and passes it to one         *)
(* colouring function.                                                     *)
(***************************************************************************)
\* the node lists the scripts can build: no node twice
NodeLists(S) ==
    UNION {{s \in [1..n -> S] : \A i, j \in 1..n : i # j => s[i] # s[j]} :
           n \in 0..Cardinality(S)}

Pairs(S) == {{u, v} : u, v \in S} \ {{u} : u \in S}

\* the graph after add_node over ns in order and add_edge over the edges es
GraphOf(ns, es) ==
    [nodes |-> ns,
     adj   |-> [n \in Range(ns) |-> {m \in Range(ns) : {n, m} \in es}]]

IdleFile ==
    /\ file = <<>>
    /\ pos = 0
    /\ g_loaded = create_graph
    /\ loader = "none"
    /\ written = FALSE

IdleColor ==
    /\ alg = "none"
    /\ color_map = <<>>
    /\ saturation = <<>>
    /\ degree = <<>>

Init ==
    /\ \E ns \in NodeLists(Ids) : \E es \in SUBSET Pairs(Range(ns)) : g = GraphOf(ns, es)
    /\ pc = "idle"
    /\ IdleColor
    /\ last_call = "none"
    /\ error = "ok"
    /\ IdleFile

CallWelshPowell ==
    /\ pc = "idle"
    /\ pc' = "done"
    /\ alg' = "welsh_powell"
    /\ color_map' = welsh_powell(g)
    /\ UNCHANGED <<g, saturation, degree, last_call, error, fileVars>>

CallGreedy ==
    /\ pc = "idle"
    /\ pc' = "done"
    /\ alg' = "greedy_coloring"
    /\ color_map' = greedy_coloring(g)
    /\ UNCHANGED <<g, saturation, degree, last_call, error, fileVars>>

\* dsatur up to its loop head
DsaturBegin ==
    /\ pc = "idle"
    /\ pc' = "dsatur"
    /\ alg' = "dsatur"
    /\ color_map' = <<>>
    /\ saturation' = [n \in NodeSet(g) |-> 0]
    /\ degree' = [n \in NodeSet(g) |-> graph_degree(g, n)]
    /\ UNCHANGED <<g, last_call, error, fileVars>>

\* one iteration of "while len(color_map) < graph.number_of_nodes()"
DsaturIterate ==
    /\ pc = "dsatur"
    /\ Cardinality(DOMAIN color_map) < number_of_nodes(g)
    /\ LET node  == DsaturSelect(g, color_map, saturation, degree)
           color == FirstFree(NeighborColors(g, color_map, node))
           cm2   == color_map @@ (node :> color)
       IN  /\ color_map' = cm2
           /\ saturation' = BumpSaturation(g, cm2, saturation, node)
    /\ UNCHANGED <<g, pc, alg, degree, last_call, error, fileVars>>

\* the loop condition fails: return color_map
DsaturReturn ==
    /\ pc = "dsatur"
    /\ ~(Cardinality(DOMAIN color_map) < number_of_nodes(g))
    /\ pc' = "done"
    /\ UNCHANGED <<g, alg, color_map, saturation, degree, last_call, error, fileVars>>

Next ==
    \/ CallWelshPowell
    \/ CallGreedy
    \/ DsaturBegin
    \/ DsaturIterate
    \/ DsaturReturn

Spec == Init /\ [][Next]_vars

\* the interpreter runs a called function to its return
FairSpec == Spec /\ WF_vars(DsaturIterate) /\ WF_vars(DsaturReturn)

(***************************************************************************)
(* Specification SpecGraph: a caller builds a graph from create_graph()    *)
(* with add_node, add_edge, remove_node and remove_edge.                   *)
(***************************************************************************)
InitGraph ==
    /\ g = create_graph
    /\ pc = "build"
    /\ IdleColor
    /\ last_call = "create_graph"
    /\ error = "ok"
    /\ IdleFile

AddNode(node) ==
    /\ pc = "build"
    /\ g' = add_node(g, node)
    /\ last_call' = "add_node"
    /\ error' = "ok"
    /\ UNCHANGED <<colorVars, fileVars>>

AddEdge(u, v) ==
    /\ pc = "build"
    /\ g' = add_edge(g, u, v)
    /\ last_call' = "add_edge"
    /\ error' = "ok"
    /\ UNCHANGED <<colorVars, fileVars>>

\* networkx raises NetworkXError for an absent node and changes nothing
RemoveNode(node) ==
    /\ pc = "build"
    /\ last_call' = "remove_node"
    /\ IF node \in NodeSet(g)
       THEN g' = remove_node(g, node) /\ error' = "ok"
       ELSE g' = g /\ error' = "NetworkXError"
    /\ UNCHANGED <<colorVars, fileVars>>

\* networkx raises NetworkXError for an absent edge and changes nothing
RemoveEdge(u, v) ==
    /\ pc = "build"
    /\ last_call' = "remove_edge"
    /\ IF u \in NodeSet(g) /\ v \in neighbors(g, u)
       THEN g' = remove_edge(g, u, v) /\ error' = "ok"
       ELSE g' = g /\ error' = "NetworkXError"
    /\ UNCHANGED <<colorVars, fileVars>>

NextGraph ==
    \/ \E node \in BuildIds : AddNode(node)
    \/ \E u, v \in BuildIds : AddEdge(u, v)
    \/ \E node \in BuildIds : RemoveNode(node)
    \/ \E u, v \in BuildIds : RemoveEdge(u, v)

SpecGraph == InitGraph /\ [][NextGraph]_vars

(***************************************************************************)
(* Text as the loaders and the writer handle it: a line is a sequence of   *)
(* characters.                                                             *)
(***************************************************************************)
Whitespace == {" ", "\t", "\n"}

DigitChars == <<"0", "1", "2", "3", "4", "5", "6", "7", "8", "9">>

RECURSIVE LStrip(_)
LStrip(s) == IF s # <<>> /\ Head(s) \in Whitespace THEN LStrip(Tail(s)) ELSE s

RECURSIVE RStrip(_)
RStrip(s) ==
    IF s # <<>> /\ s[Len(s)] \in Whitespace THEN RStrip(SubSeq(s, 1, Len(s) - 1)) ELSE s

\* str.strip()
Strip(s) == RStrip(LStrip(s))

\* str.startswith(c) for a one-character prefix
StartsWith(s, c) == s # <<>> /\ Head(s) = c

RECURSIVE SplitFrom(_, _, _)
SplitFrom(s, cur, acc) ==
    IF s = <<>> THEN (IF cur = <<>> THEN acc ELSE Append(acc, cur))
    ELSE IF Head(s) \in Whitespace
         THEN SplitFrom(Tail(s), <<>>, IF cur = <<>> THEN acc ELSE Append(acc, cur))
         ELSE SplitFrom(Tail(s), Append(cur, Head(s)), acc)

\* str.split(): the maximal runs of non-whitespace characters
Split(s) == SplitFrom(s, <<>>, <<>>)

Unsigned(tok) == IF tok # <<>> /\ Head(tok) \in {"+", "-"} THEN Tail(tok) ELSE tok

\* whether int(tok) returns (otherwise it raises ValueError)
IsInt(tok) ==
    /\ Unsigned(tok) # <<>>
    /\ \A i \in 1..Len(Unsigned(tok)) : Unsigned(tok)[i] \in Range(DigitChars)

DigitValue(c) == (CHOOSE i \in 1..Len(DigitChars) : DigitChars[i] = c) - 1

RECURSIVE DigitsValue(_)
DigitsValue(ds) ==
    IF ds = <<>> THEN 0
    ELSE 10 * DigitsValue(SubSeq(ds, 1, Len(ds) - 1)) + DigitValue(ds[Len(ds)])

\* int(tok) for a token int accepts
ParseInt(tok) ==
    IF Head(tok) = "-" THEN 0 - DigitsValue(Unsigned(tok)) ELSE DigitsValue(Unsigned(tok))

RECURSIVE NatToStr(_)
NatToStr(n) ==
    IF n < 10 THEN <<DigitChars[n + 1]>>
    ELSE NatToStr(n \div 10) \o <<DigitChars[(n % 10) + 1]>>

\* f"{u}" for an integer u
IntToStr(n) == IF n < 0 THEN <<"-">> \o NatToStr(0 - n) ELSE NatToStr(n)

(***************************************************************************)
(* The writer and the two loaders.                                         *)
(***************************************************************************)
\* graph.edges(): every node in iteration order with its neighbours not yet
\* seen as a first endpoint (neighbours taken in node order)
RECURSIVE EdgesFrom(_, _)
EdgesFrom(graph, i) ==
    IF i > Len(graph.nodes) THEN <<>>
    ELSE LET n    == graph.nodes[i]
             nbrs == SelectSeq(SubSeq(graph.nodes, i, Len(graph.nodes)),
                               LAMBDA m : m \in neighbors(graph, n))
         IN  [k \in 1..Len(nbrs) |-> <<n, nbrs[k]>>] \o EdgesFrom(graph, i + 1)

edges(graph) == EdgesFrom(graph, 1)

\* write_graph_to_file: file.write(f"{u} {v}\n") for every edge
write_graph_to_file(graph) ==
    [k \in 1..Len(edges(graph)) |->
        IntToStr(edges(graph)[k][1]) \o <<" ">> \o IntToStr(edges(graph)[k][2]) \o <<"\n">>]

\* graph.py, one pass of "for line in file": the graph after the line
ReadLineGraph(graph, raw) ==
    LET line == Strip(raw)
    IN  IF line = <<>> THEN graph
        ELSE IF StartsWith(line, "c") THEN graph
        ELSE IF StartsWith(line, "p") THEN graph
        ELSE IF StartsWith(line, "e")
             THEN LET toks == Split(Tail(line))
                  IN  IF Len(toks) = 2 /\ IsInt(toks[1]) /\ IsInt(toks[2])
                      THEN add_edge(graph, ParseInt(toks[1]), ParseInt(toks[2]))
                      ELSE graph  \* ValueError caught: the line is skipped
        ELSE graph

\* graph_v3.py: whether the pass over the line raises ValueError out of the loader
RaisesV3(raw) ==
    LET line  == Strip(raw)
        parts == Split(line)
    IN  /\ StartsWith(line, "e")
        /\ Len(parts) = 3
        /\ ~(IsInt(parts[2]) /\ IsInt(parts[3]))

\* graph_v3.py, one pass of "for line in file" that does not raise
ReadLineV3(graph, raw) ==
    LET line  == Strip(raw)
        parts == Split(line)
    IN  IF StartsWith(line, "e") /\ Len(parts) = 3
        THEN add_edge(graph, ParseInt(parts[2]), ParseInt(parts[3]))
        ELSE graph

(***************************************************************************)
(* Specification SpecFile: a graph is written and read back, or a given    *)
(* file is read, by one of the two loaders.                                *)
(***************************************************************************)
InputLines ==
    { <<"e", " ", "1", " ", "2", "\n">>,
      <<"e", " ", "2", " ", "3", "\n">>,
      <<"e", " ", "1", "\n">>,
      <<"e", " ", "1", " ", "2", " ", "3", "\n">>,
      <<"e", " ", "1", " ", "x", "\n">>,
      <<"c", " ", "e", " ", "1", " ", "2", "\n">>,
      <<"p", " ", "e", "d", "g", "e", " ", "3", " ", "2", "\n">>,
      <<"\n">>,
      <<" ", "e", " ", " ", "1", "2", " ", "3", " ", "\n">>,
      <<"1", " ", "2", "\n">>,
      <<"e", "1", " ", "2", "\n">> }

InputFiles == UNION {[1..n -> InputLines] : n \in 0..MaxLines}

InitFile ==
    /\ IdleColor
    /\ last_call = "none"
    /\ error = "ok"
    /\ pos = 0
    /\ g_loaded = create_graph
    /\ loader = "none"
    /\ written = FALSE
    /\ \/ /\ \E ns \in NodeLists(Ids) : \E es \in SUBSET Pairs(Range(ns)) :
                g = GraphOf(ns, es)
          /\ file = <<>>
          /\ pc = "have_graph"
       \/ /\ g = create_graph
          /\ file \in InputFiles
          /\ pc = "have_file"

\* write_graph_to_file(g, "graph.txt")
WriteGraph ==
    /\ pc = "have_graph"
    /\ file' = write_graph_to_file(g)
    /\ written' = TRUE
    /\ pc' = "have_file"
    /\ UNCHANGED <<g, alg, color_map, saturation, degree, last_call, error,
                   pos, g_loaded, loader>>

\* read_graph_from_file up to its loop: graph = nx.Graph(), the file is open
OpenFile(l) ==
    /\ pc = "have_file"
    /\ loader' = l
    /\ g_loaded' = create_graph
    /\ pos' = 0
    /\ pc' = "reading"
    /\ UNCHANGED <<g, alg, color_map, saturation, degree, last_call, error,
                   file, written>>

\* graph.py: one pass of the loop over the lines
StepGraph ==
    /\ pc = "reading"
    /\ loader = "graph"
    /\ pos < Len(file)
    /\ g_loaded' = ReadLineGraph(g_loaded, file[pos + 1])
    /\ pos' = pos + 1
    /\ UNCHANGED <<g, pc, alg, color_map, saturation, degree, last_call, error,
                   file, loader, written>>

\* graph_v3.py: one pass of the loop over the lines; int() may raise
StepV3 ==
    /\ pc = "reading"
    /\ loader = "v3"
    /\ pos < Len(file)
    /\ IF RaisesV3(file[pos + 1])
       THEN /\ pc' = "raised"
            /\ error' = "ValueError"
            /\ UNCHANGED <<g_loaded, pos>>
       ELSE /\ g_loaded' = ReadLineV3(g_loaded, file[pos + 1])
            /\ pos' = pos + 1
            /\ UNCHANGED <<pc, error>>
    /\ UNCHANGED <<g, alg, color_map, saturation, degree, last_call,
                   file, loader, written>>

\* the lines are exhausted: return graph
ReturnGraph ==
    /\ pc = "reading"
    /\ pos = Len(file)
    /\ pc' = "returned"
    /\ UNCHANGED <<g, alg, color_map, saturation, degree, last_call, error,
                   fileVars>>

NextFile ==
    \/ WriteGraph
    \/ \E l \in {"graph", "v3"} : OpenFile(l)
    \/ StepGraph
    \/ StepV3
    \/ ReturnGraph

SpecFile == InitFile /\ [][NextFile]_vars

(***************************************************************************)
(* Properties of the colouring functions.                                  *)
(***************************************************************************)
\* the colours a colour assignment uses
ColorsOf(cm) == {cm[n] : n \in DOMAIN cm}

\* max(coloration.values()), the number of colours the scripts report
colors_used(cm) == CHOOSE c \in ColorsOf(cm) : \A d \in ColorsOf(cm) : d <= c

Returned == pc = "done"

ProperColoring(graph, cm) ==
    \A u \in NodeSet(graph) : \A v \in neighbors(graph, u) : cm[u] # cm[v]

\* C1 (validity): the assignment any of the three functions returns on a
\* graph without self-loops never gives two adjacent vertices the same colour.
C1_Validity ==
    Returned => /\ NodeSet(g) \subseteq DOMAIN color_map
                /\ ProperColoring(g, color_map)

\* a returned colouring of a graph with at least three edges, three colours needed
C1_Witness ==
    /\ Returned
    /\ Cardinality(EdgeSet(g)) >= 3
    /\ Cardinality(ColorsOf(color_map)) >= 3

TotalAssignment ==
    Returned => /\ DOMAIN color_map = NodeSet(g)
                /\ \A n \in NodeSet(g) : color_map[n] \in Nat /\ color_map[n] >= 1

OneNewVertexPerIteration ==
    DsaturIterate =>
        /\ DOMAIN color_map \subseteq DOMAIN color_map'
        /\ Cardinality(DOMAIN color_map') = Cardinality(DOMAIN color_map) + 1

\* at its loop head dsatur can always take a step, and never holds more
\* colours than there are vertices
LoopHeadProgress ==
    (pc = "dsatur") =>
        /\ ENABLED (DsaturIterate \/ DsaturReturn)
        /\ Cardinality(DOMAIN color_map) <= number_of_nodes(g)

\* fairness gives the same as the two facts above: the loop reaches its return
DsaturTerminates == (pc = "dsatur") ~> Returned

\* C2 (totality): every function returns an assignment whose keys are exactly
\* the vertices of the graph (empty graph and isolated vertices included),
\* every colour an integer >= 1; the dsatur loop can always step at its head
\* and each iteration colours exactly one new vertex, so it exits after as
\* many iterations as there are vertices.
C2_Totality ==
    /\ []TotalAssignment
    /\ []LoopHeadProgress
    /\ [][OneNewVertexPerIteration]_vars

\* dsatur has returned on a graph with an isolated vertex and an edge
C2_Witness ==
    /\ Returned
    /\ alg = "dsatur"
    /\ \E n \in NodeSet(g) : neighbors(g, n) = {}
    /\ EdgeSet(g) # {}
    /\ DOMAIN color_map = NodeSet(g)

\* C3 (no gaps): on a non-empty graph the colours welsh_powell returns are
\* exactly 1..k with k the maximum colour, so the reported colors_used equals
\* the number of distinct colours.
C3_NoGaps ==
    (Returned /\ alg = "welsh_powell" /\ g.nodes # <<>>) =>
        /\ ColorsOf(color_map) = 1..colors_used(color_map)
        /\ colors_used(color_map) = Cardinality(ColorsOf(color_map))

\* welsh_powell has returned three colours, the extension pass having reused one
C3_Witness ==
    /\ Returned
    /\ alg = "welsh_powell"
    /\ Len(g.nodes) = 4
    /\ colors_used(color_map) = 3

IsComplete(graph) ==
    \A u, v \in NodeSet(graph) : u # v => v \in neighbors(graph, u)

\* C4 (clique bound): on a complete graph with k vertices, in any insertion
\* order, every function uses at least k colours; on the triangle exactly 3.
C4_CliqueBound ==
    (Returned /\ IsComplete(g)) =>
        /\ Cardinality(ColorsOf(color_map)) >= Len(g.nodes)
        /\ Len(g.nodes) = 3 => /\ Cardinality(ColorsOf(color_map)) = 3
                               /\ colors_used(color_map) = 3

\* greedy_coloring has returned on a triangle
C4_Witness ==
    /\ Returned
    /\ alg = "greedy_coloring"
    /\ IsComplete(g)
    /\ Len(g.nodes) = 3
    /\ ColorsOf(color_map) = {1, 2, 3}

\* the cycle 1-2-3-4-1 of the example script, in any insertion order
IsFourCycle(graph) ==
    /\ NodeSet(graph) = {1, 2, 3, 4}
    /\ EdgeSet(graph) = {{1, 2}, {2, 3}, {3, 4}, {4, 1}}

\* C5 (4-cycle): on the cycle 1-2-3-4-1, whatever the insertion order of the
\* four vertices, every function returns a valid colouring with exactly 2 colours.
C5_FourCycle ==
    (Returned /\ IsFourCycle(g)) =>
        /\ ProperColoring(g, color_map)
        /\ Cardinality(ColorsOf(color_map)) = 2
        /\ colors_used(color_map) = 2

\* welsh_powell has returned on the example script's graph
C5_Witness ==
    /\ Returned
    /\ alg = "welsh_powell"
    /\ g.nodes = <<1, 2, 3, 4>>
    /\ IsFourCycle(g)
    /\ color_map = (1 :> 1) @@ (2 :> 2) @@ (3 :> 1) @@ (4 :> 2)

\* number of distinct colours among the coloured neighbours of v
DistinctSaturation(v) == Cardinality(NeighborColors(g, color_map, v))

UncoloredNodes == NodeSet(g) \ DOMAIN color_map

\* C9 (saturation): at the head of the dsatur loop, saturation[v] of every
\* uncoloured vertex v is the number of distinct colours among its coloured
\* neighbours, and the vertex selected maximises (that number, degree).
C9_SaturationDistinct ==
    (pc = "dsatur") =>
        /\ \A v \in UncoloredNodes : saturation[v] = DistinctSaturation(v)
        /\ UncoloredNodes # {} =>
              LET node == DsaturSelect(g, color_map, saturation, degree)
              IN  \A v \in UncoloredNodes :
                     \/ DistinctSaturation(v) < DistinctSaturation(node)
                     \/ /\ DistinctSaturation(v) = DistinctSaturation(node)
                        /\ degree[v] <= degree[node]

MaxDegree(graph) ==
    IF graph.nodes = <<>> THEN 0
    ELSE CHOOSE d \in {graph_degree(graph, n) : n \in NodeSet(graph)} :
            \A n \in NodeSet(graph) : graph_degree(graph, n) <= d

\* C10 (Grundy property): in every returned assignment a vertex of colour
\* c > 1 has a neighbour of each colour below c; no function uses more than
\* maximum degree + 1 colours; an edgeless graph gets colour 1 everywhere.
C10_Grundy ==
    Returned =>
        /\ \A v \in NodeSet(g) : \A c \in 1..(color_map[v] - 1) :
              \E n \in neighbors(g, v) : color_map[n] = c
        /\ \A v \in NodeSet(g) : color_map[v] <= MaxDegree(g) + 1
        /\ EdgeSet(g) = {} => \A v \in NodeSet(g) : color_map[v] = 1

\* a returned assignment in which some vertex has colour 3
C10_Witness ==
    /\ Returned
    /\ alg = "welsh_powell"
    /\ \E v \in NodeSet(g) : color_map[v] = 3 /\ Cardinality(neighbors(g, v)) = 2

(***************************************************************************)
(* Properties of the graph-management functions.                           *)
(***************************************************************************)
Symmetric(graph) ==
    \A u \in NodeSet(graph) : \A v \in neighbors(graph, u) :
        v \in NodeSet(graph) /\ u \in neighbors(graph, v)

NoDangling(graph) ==
    /\ DOMAIN graph.adj = NodeSet(graph)
    /\ \A u \in NodeSet(graph) : neighbors(graph, u) \subseteq NodeSet(graph)

StructuralInvariant == Symmetric(g) /\ NoDangling(g)

AddEdgePost ==
    (last_call' = "add_edge") =>
        \A u, v \in BuildIds :
            AddEdge(u, v) => /\ {u, v} \subseteq NodeSet(g')
                             /\ v \in neighbors(g', u)
                             /\ u \in neighbors(g', v)

RemoveNodePost ==
    (last_call' = "remove_node") =>
        \A node \in NodeSet(g) :
            RemoveNode(node) =>
                /\ node \notin NodeSet(g')
                /\ \A w \in NodeSet(g') : node \notin neighbors(g', w)
                /\ NodeSet(g') = NodeSet(g) \ {node}

\* C6 (structure): after any sequence of add_node, add_edge, remove_node and
\* remove_edge calls, succeeding or failing, adjacency is symmetric and names
\* only present vertices; add_edge makes both endpoints present; remove_node
\* takes the vertex out of the vertex set and of every neighbour's adjacency
\* in the same step.
C6_Structure ==
    /\ []StructuralInvariant
    /\ [][AddEdgePost /\ RemoveNodePost]_vars

\* a vertex with a neighbour was removed and an edge is left
C6_Witness ==
    /\ last_call = "remove_node"
    /\ error = "ok"
    /\ Len(g.nodes) = 2
    /\ Cardinality(EdgeSet(g)) = 2

(***************************************************************************)
(* Properties of the writer and the loaders.                               *)
(***************************************************************************)
\* C7 (round trip): reading back the file write_graph_to_file produced for
\* a graph yields a graph with the same vertices and the same edges.
C7_RoundTrip ==
    (pc = "returned" /\ written) =>
        /\ NodeSet(g_loaded) = NodeSet(g)
        /\ EdgeSet(g_loaded) = EdgeSet(g)

EdgeTokens(raw) == Split(Tail(Strip(raw)))

TwoIntegers(toks) == Len(toks) = 2 /\ IsInt(toks[1]) /\ IsInt(toks[2])

\* a line that starts with the edge marker
EdgeLine(raw) == StartsWith(Strip(raw), "e")

\* an edge line whose remainder is not exactly two integers
Malformed(raw) == EdgeLine(raw) /\ ~TwoIntegers(EdgeTokens(raw))

\* the marker alone, then exactly two integers
WellFormed(raw) ==
    /\ EdgeLine(raw)
    /\ TwoIntegers(EdgeTokens(raw))
    /\ Split(Strip(raw))[1] = <<"e">>

LineEdge(raw) == {ParseInt(EdgeTokens(raw)[1]), ParseInt(EdgeTokens(raw)[2])}

LinesRead == {file[i] : i \in 1..pos}

MalformedSkipped ==
    /\ \A raw \in LinesRead : WellFormed(raw) => LineEdge(raw) \in EdgeSet(g_loaded)
    /\ EdgeSet(g_loaded) \subseteq
           {LineEdge(raw) : raw \in {r \in LinesRead : EdgeLine(r) /\ ~Malformed(r)}}
    /\ NodeSet(g_loaded) = UNION EdgeSet(g_loaded)

\* C8 (malformed lines): neither loader ever raises on an edge line that is
\* not exactly two integers; it adds no vertex and no edge for such a line and
\* adds the edge of every well-formed edge line before and after it.
C8_MalformedNonFatal ==
    /\ pc # "raised"
    /\ pc \in {"reading", "returned"} => MalformedSkipped

====
